---- MODULE Spec2Model ----
(***************************************************************************)
(* Travel booking assistant (src/main.py): the search filter, the session  *)
(* state kept across Streamlit reruns, the itinerary generation block, the *)
(* confirm handler and the SQLite booking store.                           *)
(*                                                                         *)
(* One rerun of the script is the sequence of steps                        *)
(*   user event (callback, startup, form validation, search)               *)
(*   -> ItineraryGeneration -> ConfirmHandler -> Sidebar                   *)
(* and pc is the script's position between them.                           *)
(***************************************************************************)
EXTENDS Integers, Sequences, FiniteSets, TLC

VARIABLES
    AGNO_API_KEY,        \* TRUE iff os.getenv("AGNO_API_KEY") is a non-empty string
    csv_exists,          \* both dataset files exist on disk
    flights_df_all,      \* the loaded flights table, a sequence of rows
    hotels_df_all,       \* the loaded hotels table, a sequence of rows
    top_flights,         \* st.session_state.top_flights
    top_hotels,          \* st.session_state.top_hotels
    itinerary_text,      \* st.session_state.itinerary_text
    last_search,         \* st.session_state.last_search
    selected_flight_id,  \* st.session_state.selected_flight_id
    selected_hotel_id,   \* st.session_state.selected_hotel_id
    rows,                \* table bookings, in rowid order
    seq,                 \* sqlite_sequence of table bookings (AUTOINCREMENT)
    now,                 \* CURRENT_TIMESTAMP, in whole seconds
    pc,                  \* position of the running script, "idle" between reruns
    trigger,             \* what started the current rerun
    widgets,             \* the last run rendered the form and the buttons
    run_status,          \* "running", "done", "stopped" (st.stop) or "crashed"
    message,             \* outcome shown by the confirm handler in this run
    receipts,            \* every dict returned by BookingDB.save so far
    recent,              \* the last list_recent call: its limit and its result
    advisor_calls        \* itinerary_agent.run calls since the last valid search

session == <<top_flights, top_hotels, itinerary_text, last_search,
             selected_flight_id, selected_hotel_id>>
config == <<AGNO_API_KEY, csv_exists, flights_df_all, hotels_df_all>>
store == <<rows, seq, receipts>>
vars == <<config, session, store, now, pc, trigger, widgets, run_status,
          message, recent, advisor_calls>>

----------------------------------------------------------------------------
\* Bounds of the model.

\* bookings a session may confirm
MaxBookings == 1
\* calls of BookingDB.save in the store-only specification
MaxSaves == 4
\* seconds the clock may advance in the store-only specification
MaxTime == 1
\* largest limit passed to list_recent in the store-only specification
MaxLimit == 2
\* advisor calls per search are counted up to this value and no further
MaxCallsCounted == 2

----------------------------------------------------------------------------
\* Python values and string functions.

None == "None"
EmptyDict == [empty |-> TRUE]
Nothing == <<>>
Some(x) == <<x>>

Falsy(v) == v = None \/ v = ""

Min(a, b) == IF a <= b THEN a ELSE b

UpperLetters == "ABCDEFGHIJKLMNOPQRSTUVWXYZ"
LowerLetters == "abcdefghijklmnopqrstuvwxyz"

CharAt(s, i) == SubSeq(s, i, i)

LowerChar(c) ==
    IF \E i \in 1..Len(UpperLetters) : CharAt(UpperLetters, i) = c
    THEN CharAt(LowerLetters, CHOOSE i \in 1..Len(UpperLetters) : CharAt(UpperLetters, i) = c)
    ELSE c

RECURSIVE LowerOf(_)
LowerOf(s) ==
    IF Len(s) = 0 THEN ""
    ELSE LowerChar(CharAt(s, 1)) \o LowerOf(SubSeq(s, 2, Len(s)))

IsSpace(c) == c = " "

RECURSIVE LStrip(_)
LStrip(s) ==
    IF Len(s) > 0 /\ IsSpace(CharAt(s, 1)) THEN LStrip(SubSeq(s, 2, Len(s))) ELSE s

RECURSIVE RStrip(_)
RStrip(s) ==
    IF Len(s) > 0 /\ IsSpace(CharAt(s, Len(s))) THEN RStrip(SubSeq(s, 1, Len(s) - 1)) ELSE s

StripOf(s) == RStrip(LStrip(s))

StartsWith(s, prefix) ==
    Len(prefix) <= Len(s) /\ SubSeq(s, 1, Len(prefix)) = prefix

RECURSIVE ZeroPad(_, _)
ZeroPad(digits, width) ==
    IF Len(digits) >= width THEN digits ELSE ZeroPad("0" \o digits, width)

Str(v) == ToString(v)

Strftime(dt) ==
    ZeroPad(ToString(dt.year), 4) \o "-" \o ZeroPad(ToString(dt.month), 2)
        \o "-" \o ZeroPad(ToString(dt.day), 2)

CodeWidth == 6
\* Mutant of Fmt06d: the key padded to five digits.
Fmt05d(n) == ZeroPad(ToString(n), CodeWidth - 1)

Fmt06d(n) == ZeroPad(ToString(n), CodeWidth)

Quote(s) == "\"" \o s \o "\""

JsonDumpsFlight(opt) ==
    IF opt = Nothing THEN "null"
    ELSE LET f == opt[1] IN
         [flight_id |-> ToString(f.flight_id),
          origin |-> Quote(f.origin),
          destination |-> Quote(f.destination),
          depart_datetime |-> Quote(f.depart_datetime),
          price_usd |-> ToString(f.price_usd)]

JsonDumpsHotel(opt) ==
    IF opt = Nothing THEN "null"
    ELSE LET h == opt[1] IN
         [hotel_id |-> ToString(h.hotel_id),
          city |-> Quote(h.city),
          price_per_night |-> ToString(h.price_per_night),
          rating |-> ToString(h.rating),
          availability_rooms |-> ToString(h.availability_rooms)]

----------------------------------------------------------------------------
\* Datasets (flights.csv, hotels.csv) and form inputs.  rating is in tenths.

Flight(id, o, d, dep, price) ==
    [flight_id |-> id, origin |-> o, destination |-> d,
     depart_datetime |-> dep, price_usd |-> price]

Hotel(id, c, price, r, rooms) ==
    [hotel_id |-> id, city |-> c, price_per_night |-> price,
     rating |-> r, availability_rooms |-> rooms]

SessionFlights == <<
    Flight(101, "Delhi", "Paris", "2025-10-05T10:00", 500),
    Flight(102, "delhi", "PARIS", "2025-10-05T21:30", 300),
    Flight(103, "Delhi", "Paris", "2025-10-06T10:00", 200),
    Flight(104, "Paris", "Delhi", "2025-10-05T08:00", 100),
    Flight(105, "Delhi", "Rome", "2025-10-06T09:00", 250) >>

SessionHotels == <<
    Hotel(201, "Paris", 90, 41, 2),
    Hotel(202, "paris", 120, 45, 1),
    Hotel(203, "Paris", 80, 39, 0),
    Hotel(204, "Rome", 120, 40, 3),
    Hotel(205, "Paris", 200, 48, 5) >>

CatalogFlights == <<
    Flight(1, "Delhi", "Paris", "2025-10-05T06:00", 500),
    Flight(2, "Delhi", "Paris", "2025-10-05T07:00", 300),
    Flight(3, "DELHI", "paris", "2025-10-05T08:00", 300),
    Flight(4, "Delhi", "Paris", "2025-10-05T09:00", 450),
    Flight(5, "Delhi", "Paris", "2025-10-05T10:00", 120),
    Flight(6, "Delhi", "Paris", "2025-10-05T11:00", 700),
    Flight(7, "Delhi", "Paris", "2025-10-05T12:00", 650),
    Flight(8, "Delhi", "Paris", "2025-10-05T13:00", 610),
    Flight(9, "Delhi", "Paris", "2025-10-05T14:00", 90),
    Flight(10, "Delhi", "Paris", "2025-10-05T15:00", 800),
    Flight(11, "Delhi", "Paris", "2025-10-06T15:00", 50),
    Flight(12, " Delhi", "Paris", "2025-10-05T16:00", 40),
    Flight(13, "Delhi", "Rome", "2025-10-05T17:00", 210),
    Flight(14, "Delhi", "Rome", "2025-10-05T18:00", 205),
    Flight(15, "Paris", "Delhi", "2025-10-05T19:00", 30) >>

CatalogHotels == <<
    Hotel(21, "Paris", 90, 41, 2),
    Hotel(22, "Paris", 90, 35, 1),
    Hotel(23, "PARIS", 60, 30, 4),
    Hotel(24, "Paris", 150, 47, 1),
    Hotel(25, "Paris", 100, 44, 9),
    Hotel(26, "Paris", 140, 40, 2),
    Hotel(27, "Paris", 130, 42, 2),
    Hotel(28, "Paris", 110, 38, 3),
    Hotel(29, "Paris", 55, 29, 1),
    Hotel(30, "Paris", 145, 46, 6),
    Hotel(31, "Paris", 50, 33, 0),
    Hotel(32, "Paris", 151, 49, 7),
    Hotel(33, "Rome", 100, 40, 1),
    Hotel(34, "Rome", 101, 45, 0),
    Hotel(35, "Rome ", 70, 45, 2) >>

Day(y, m, d) == [year |-> y, month |-> m, day |-> d]

SessionOrigins == {"", " Delhi"}
SessionDestinations == {" ", "paris ", "Rome"}
SessionDates == {Day(2025, 10, 5)}
SessionBudgets == {100, 150}

CatalogOrigins == {"", " delhi "}
CatalogDestinations == {"  ", "Paris", "PARIS ", "Rome"}
CatalogDates == {Day(2025, 10, 5), Day(2025, 10, 6)}
CatalogBudgets == {60, 100, 150}

NightsValues == {3}

\* str.strip and str.lower, tabulated once over the texts that occur as a
\* place name in a dataset or in a form input.
SeqRange(s) == {s[i] : i \in 1..Len(s)}

PlaceTexts ==
    UNION {{f.origin, f.destination} : f \in SeqRange(SessionFlights \o CatalogFlights)}
        \cup {h.city : h \in SeqRange(SessionHotels \o CatalogHotels)}
        \cup SessionOrigins \cup SessionDestinations
        \cup CatalogOrigins \cup CatalogDestinations

StripTable == [s \in PlaceTexts |-> StripOf(s)]
LowerTable == [s \in PlaceTexts \cup {StripOf(t) : t \in PlaceTexts} |-> LowerOf(s)]

Strip(s) == StripTable[s]
Lower(s) == LowerTable[s]

----------------------------------------------------------------------------
\* Search filter.

EligibleCap == 12
DisplayCap == 8

DfHead(s, n) == SubSeq(s, 1, Min(n, Len(s)))

\* Stable ascending sort: x is placed after every element not greater than it.
StableSort(s, Leq(_, _)) ==
    LET Insert(t, x) ==
            LET later == {j \in 1..Len(t) : ~Leq(t[j], x)}
                p == IF later = {} THEN Len(t) + 1
                     ELSE CHOOSE j \in later : \A k \in later : j <= k
            IN SubSeq(t, 1, p - 1) \o <<x>> \o SubSeq(t, p, Len(t))
        F[i \in 0..Len(s)] == IF i = 0 THEN <<>> ELSE Insert(F[i - 1], s[i])
    IN F[Len(s)]

\* Mutant of FlightMatches: the departure day is not compared.
FlightMatchesAnyDate(f, o, d, dt_str) ==
    /\ Lower(f.origin) = Lower(Strip(o))
    /\ Lower(f.destination) = Lower(Strip(d))

FlightMatches(f, o, d, dt_str) ==
    /\ Lower(f.origin) = Lower(Strip(o))
    /\ Lower(f.destination) = Lower(Strip(d))
    /\ StartsWith(f.depart_datetime, dt_str)

\* Mutant of HotelMatches: sold-out hotels are kept.
HotelMatchesAnyRooms(h, d, bud) ==
    /\ Lower(h.city) = Lower(Strip(d))
    /\ h.price_per_night <= bud

HotelMatches(h, d, bud) ==
    /\ Lower(h.city) = Lower(Strip(d))
    /\ h.price_per_night <= bud
    /\ h.availability_rooms > 0

\* Mutant of FlightLeq: the flights are sorted by descending price.
FlightGeq(a, b) == a.price_usd >= b.price_usd

FlightLeq(a, b) == a.price_usd <= b.price_usd

HotelLeq(a, b) ==
    \/ a.price_per_night < b.price_per_night
    \/ a.price_per_night = b.price_per_night /\ a.rating <= b.rating

SearchFlights(o, d, dt_str) ==
    DfHead(StableSort(SelectSeq(flights_df_all, LAMBDA f : FlightMatches(f, o, d, dt_str)),
                    FlightLeq),
         EligibleCap)

SearchHotels(d, bud) ==
    DfHead(StableSort(SelectSeq(hotels_df_all, LAMBDA h : HotelMatches(h, d, bud)),
                    HotelLeq),
         EligibleCap)

\* Mutant of do_search_and_cache: a new search also drops the selections.
do_search_and_cache_clearing(o, d, dt_str, bud, nights_val) ==
    /\ top_flights' = DfHead(SearchFlights(o, d, dt_str), DisplayCap)
    /\ top_hotels' = DfHead(SearchHotels(d, bud), DisplayCap)
    /\ itinerary_text' = ""
    /\ last_search' = [origin |-> o, destination |-> d, travel_date |-> dt_str,
                       budget |-> bud, nights |-> nights_val]
    /\ selected_flight_id' = None
    /\ selected_hotel_id' = None

do_search_and_cache(o, d, dt_str, bud, nights_val) ==
    /\ top_flights' = DfHead(SearchFlights(o, d, dt_str), DisplayCap)
    /\ top_hotels' = DfHead(SearchHotels(d, bud), DisplayCap)
    /\ itinerary_text' = ""
    /\ last_search' = [origin |-> o, destination |-> d, travel_date |-> dt_str,
                       budget |-> bud, nights |-> nights_val]
    /\ UNCHANGED <<selected_flight_id, selected_hotel_id>>

----------------------------------------------------------------------------
\* Booking store.

NextRowId == seq + 1

ConfirmationCode(booking_id) == "TRV-" \o Fmt06d(booking_id)

BookingDB_save(origin, destination, travel_date, flight_obj, hotel_obj, itinerary) ==
    LET booking_id == NextRowId IN
    /\ rows' = Append(rows, [id |-> booking_id,
                             origin |-> origin,
                             destination |-> destination,
                             travel_date |-> travel_date,
                             flight_json |-> JsonDumpsFlight(flight_obj),
                             hotel_json |-> JsonDumpsHotel(hotel_obj),
                             itinerary |-> itinerary,
                             created_at |-> now])
    /\ seq' = booking_id
    /\ receipts' = Append(receipts, [booking_id |-> booking_id,
                                     confirmation_code |-> ConfirmationCode(booking_id)])

Summary(r) ==
    [id |-> r.id, origin |-> r.origin, destination |-> r.destination,
     travel_date |-> r.travel_date, created_at |-> r.created_at]

\* ORDER BY created_at DESC LIMIT n: the first n rows of every order that is
\* descending in created_at; SQL leaves the order of rows with equal
\* created_at open.
RECURSIVE DescOrders(_, _)
DescOrders(S, n) ==
    IF S = {} \/ n = 0 THEN {<<>>}
    ELSE LET tops == {i \in S : \A j \in S : rows[i].created_at >= rows[j].created_at}
         IN UNION {{<<i>> \o t : t \in DescOrders(S \ {i}, n - 1)} : i \in tops}

list_recent(limit) ==
    {[k \in 1..Len(order) |-> Summary(rows[order[k]])] :
        order \in DescOrders(1..Len(rows), limit)}

NoRecent == [limit |-> 0, result |-> <<>>]

----------------------------------------------------------------------------
\* The script, one rerun at a time.

NoItineraryText == "No itinerary yet. Search and then generate."
AgentErrorText == "Itinerary could not be generated (agent error)."

\* itinerary_agent.run either raises or returns a response whose content is
\* free text, the empty text included.
AdvisorOutcomes ==
    {[raises |-> TRUE, content |-> ""],
     [raises |-> FALSE, content |-> "Day 1: walk, museum, dinner."],
     [raises |-> FALSE, content |-> ""]}

\* Lines 131-150: st.stop() when a dataset file is missing; with no API key
\* get_agents_with_tools returns four stubs and the unpacking into three
\* names raises ValueError.
StartupOutcome ==
    IF ~csv_exists THEN "stopped"
    ELSE IF ~AGNO_API_KEY THEN "crashed"
    ELSE "running"

\* Mutant of FindById: the first record stands in when no id matches.
FindByIdOrFirst(items, key, sel) ==
    LET hits == SelectSeq(items, LAMBDA e : Str(e[key]) = sel)
    IN IF hits # <<>> THEN Some(hits[1])
       ELSE IF items # <<>> THEN Some(items[1]) ELSE Nothing

\* next((e for e in items if str(e[key]) == str(sel)), None)
FindById(items, key, sel) ==
    LET hits == SelectSeq(items, LAMBDA e : Str(e[key]) = sel)
    IN IF hits = <<>> THEN Nothing ELSE Some(hits[1])

DictGet(d, key, default) == IF d = EmptyDict THEN default ELSE d[key]

ConfirmOutcome(sel_f, sel_h, flight_obj, hotel_obj) ==
    IF Falsy(sel_f) \/ Falsy(sel_h) THEN "need_both"
    ELSE IF flight_obj = Nothing \/ hotel_obj = Nothing THEN "not_found"
    ELSE "saved"

BeginRun(why) ==
    /\ pc' = "itinerary"
    /\ trigger' = why
    /\ run_status' = "running"
    /\ message' = "none"
    /\ recent' = NoRecent
    /\ UNCHANGED <<config, store, now, widgets>>

\* A page load, or any rerun that carries no widget event.
Reload ==
    /\ pc = "idle"
    /\ IF StartupOutcome = "running"
       THEN BeginRun("load")
       ELSE /\ run_status' = StartupOutcome
            /\ widgets' = FALSE
            /\ message' = "none"
            /\ recent' = NoRecent
            /\ UNCHANGED <<config, store, now, pc, trigger>>
    /\ UNCHANGED <<session, advisor_calls>>

\* The search form is submitted: lines 250-255.
Submit(origin, destination, travel_dt, budget, nights) ==
    /\ pc = "idle" /\ widgets /\ StartupOutcome = "running"
    /\ IF Strip(origin) = "" \/ Strip(destination) = ""
       THEN /\ BeginRun("submit_invalid")
            /\ UNCHANGED <<session, advisor_calls>>
       ELSE /\ BeginRun("submit_valid")
            /\ do_search_and_cache(origin, destination, Strftime(travel_dt), budget, nights)
            /\ advisor_calls' = 0

\* Select on the i-th flight card: the on_click callback, then the rerun.
ClickSelectFlight(i) ==
    /\ pc = "idle" /\ widgets /\ StartupOutcome = "running"
    /\ i \in 1..Len(top_flights)
    /\ selected_flight_id' = Str(top_flights[i].flight_id)
    /\ BeginRun("select")
    /\ UNCHANGED <<top_flights, top_hotels, itinerary_text, last_search,
                   selected_hotel_id, advisor_calls>>

ClickSelectHotel(i) ==
    /\ pc = "idle" /\ widgets /\ StartupOutcome = "running"
    /\ i \in 1..Len(top_hotels)
    /\ selected_hotel_id' = Str(top_hotels[i].hotel_id)
    /\ BeginRun("select")
    /\ UNCHANGED <<top_flights, top_hotels, itinerary_text, last_search,
                   selected_flight_id, advisor_calls>>

\* The Confirm button is pressed.  A press that would save is offered only
\* while the store holds fewer than MaxBookings rows.
ClickConfirm ==
    /\ pc = "idle" /\ widgets /\ StartupOutcome = "running"
    /\ \/ Len(rows) < MaxBookings
       \/ ConfirmOutcome(selected_flight_id, selected_hotel_id,
                         FindById(top_flights, "flight_id", selected_flight_id),
                         FindById(top_hotels, "hotel_id", selected_hotel_id)) # "saved"
    /\ BeginRun("confirm")
    /\ UNCHANGED <<session, advisor_calls>>

\* Lines 284-297.
ItineraryGeneration ==
    /\ pc = "itinerary"
    /\ IF Falsy(itinerary_text)
       THEN IF AGNO_API_KEY /\ (top_flights # <<>> \/ top_hotels # <<>>)
            THEN \E outcome \in AdvisorOutcomes :
                    /\ itinerary_text' = IF outcome.raises THEN AgentErrorText
                                         ELSE outcome.content
                    /\ advisor_calls' = Min(advisor_calls + 1, MaxCallsCounted)
            ELSE /\ itinerary_text' = NoItineraryText
                 /\ UNCHANGED advisor_calls
       ELSE UNCHANGED <<itinerary_text, advisor_calls>>
    /\ pc' = "confirm"
    /\ UNCHANGED <<config, store, now, trigger, widgets, run_status, message, recent,
                   top_flights, top_hotels, last_search, selected_flight_id,
                   selected_hotel_id>>

\* Lines 306-356.  The defaults of last_search.get are the form's current
\* values; they are read only when last_search is empty.
ConfirmHandler ==
    /\ pc = "confirm"
    /\ LET sel_f == selected_flight_id
           sel_h == selected_hotel_id
           flight_obj == FindById(top_flights, "flight_id", sel_f)
           hotel_obj == FindById(top_hotels, "hotel_id", sel_h)
           outcome == ConfirmOutcome(sel_f, sel_h, flight_obj, hotel_obj)
       IN IF trigger = "confirm"
          THEN /\ message' = outcome
               /\ IF outcome = "saved"
                  THEN BookingDB_save(DictGet(last_search, "origin", ""),
                                      DictGet(last_search, "destination", ""),
                                      DictGet(last_search, "travel_date", ""),
                                      flight_obj, hotel_obj, itinerary_text)
                  ELSE UNCHANGED store
          ELSE UNCHANGED <<message, store>>
    /\ pc' = "sidebar"
    /\ UNCHANGED <<config, session, now, trigger, widgets, run_status, recent,
                   advisor_calls>>

SidebarLimit == 8

\* Lines 359-367, and the end of the run.
Sidebar ==
    /\ pc = "sidebar"
    /\ \E result \in list_recent(SidebarLimit) :
          recent' = [limit |-> SidebarLimit, result |-> result]
    /\ pc' = "idle"
    /\ trigger' = "none"
    /\ widgets' = TRUE
    /\ run_status' = "done"
    /\ UNCHANGED <<config, session, store, now, message, advisor_calls>>

----------------------------------------------------------------------------
\* The booking store on its own: the calls of BookingDB and the clock.  A
\* frame returned by list_recent is dropped before the next save.

SaveCall(flight_obj, hotel_obj, itinerary) ==
    /\ Len(rows) < MaxSaves
    /\ BookingDB_save("Delhi", "Paris", "2025-10-05", Some(flight_obj), Some(hotel_obj),
                      itinerary)
    /\ recent' = NoRecent
    /\ UNCHANGED <<config, session, now, pc, trigger, widgets, run_status, message,
                   advisor_calls>>

ListRecentCall(limit) ==
    /\ \E result \in list_recent(limit) : recent' = [limit |-> limit, result |-> result]
    /\ UNCHANGED <<config, session, store, now, pc, trigger, widgets, run_status,
                   message, advisor_calls>>

Tick ==
    /\ now < MaxTime
    /\ now' = now + 1
    /\ UNCHANGED <<config, session, store, pc, trigger, widgets, run_status, message,
                   recent, advisor_calls>>

----------------------------------------------------------------------------
\* Specifications.

InitSession ==
    /\ top_flights = <<>>
    /\ top_hotels = <<>>
    /\ itinerary_text = ""
    /\ last_search = EmptyDict
    /\ selected_flight_id = None
    /\ selected_hotel_id = None
    /\ pc = "idle"
    /\ trigger = "none"
    /\ widgets = FALSE
    /\ run_status = "done"
    /\ message = "none"
    /\ recent = NoRecent
    /\ advisor_calls = 0

InitStore ==
    /\ rows = <<>>
    /\ seq = 0
    /\ receipts = <<>>
    /\ now = 0

\* A session over the small dataset, bookings included.
Init ==
    /\ AGNO_API_KEY \in BOOLEAN
    /\ csv_exists \in BOOLEAN
    /\ flights_df_all = IF csv_exists THEN SessionFlights ELSE <<>>
    /\ hotels_df_all = IF csv_exists THEN SessionHotels ELSE <<>>
    /\ InitSession
    /\ InitStore

Next ==
    \/ Reload
    \/ \E o \in SessionOrigins, d \in SessionDestinations, dt \in SessionDates,
          bud \in SessionBudgets, n \in NightsValues : Submit(o, d, dt, bud, n)
    \/ \E i \in 1..DisplayCap : ClickSelectFlight(i)
    \/ \E i \in 1..DisplayCap : ClickSelectHotel(i)
    \/ ClickConfirm
    \/ ItineraryGeneration
    \/ ConfirmHandler
    \/ Sidebar

Spec == Init /\ [][Next]_vars

\* Searches and selections over the large dataset.
InitSearch ==
    /\ AGNO_API_KEY \in BOOLEAN
    /\ csv_exists = TRUE
    /\ flights_df_all = CatalogFlights
    /\ hotels_df_all = CatalogHotels
    /\ InitSession
    /\ InitStore

NextSearch ==
    \/ Reload
    \/ \E o \in CatalogOrigins, d \in CatalogDestinations, dt \in CatalogDates,
          bud \in CatalogBudgets, n \in NightsValues : Submit(o, d, dt, bud, n)
    \/ \E i \in 1..DisplayCap : ClickSelectFlight(i)
    \/ \E i \in 1..DisplayCap : ClickSelectHotel(i)
    \/ ItineraryGeneration
    \/ ConfirmHandler
    \/ Sidebar

SpecSearch == InitSearch /\ [][NextSearch]_vars

\* The booking store alone.
InitDB ==
    /\ AGNO_API_KEY = TRUE
    /\ csv_exists = TRUE
    /\ flights_df_all = SessionFlights
    /\ hotels_df_all = SessionHotels
    /\ InitSession
    /\ InitStore

NextDB ==
    \/ \E f \in {SessionFlights[1], SessionFlights[2]}, h \in {SessionHotels[1]},
          text \in {AgentErrorText} : SaveCall(f, h, text)
    \/ \E limit \in 1..MaxLimit : ListRecentCall(limit)
    \/ Tick

SpecDB == InitDB /\ [][NextDB]_vars

----------------------------------------------------------------------------
\* Properties.

Unquote(s) == SubSeq(s, 2, Len(s) - 1)

IsDigit(c) == \E d \in 0..9 : ToString(d) = c

DigitValue(c) == CHOOSE d \in 0..9 : ToString(d) = c

RECURSIVE DecimalValue(_)
DecimalValue(s) ==
    IF Len(s) = 0 THEN 0
    ELSE 10 * DecimalValue(SubSeq(s, 1, Len(s) - 1)) + DigitValue(CharAt(s, Len(s)))

\* code is TRV- followed by the decimal digits of key, zero-padded to 6 digits
IsCodeOf(code, key) ==
    LET digits == SubSeq(code, 5, Len(code)) IN
    /\ SubSeq(code, 1, 4) = "TRV-"
    /\ \A i \in 1..Len(digits) : IsDigit(CharAt(digits, i))
    /\ DecimalValue(digits) = key
    /\ Len(digits) >= 6
    /\ Len(digits) > 6 => CharAt(digits, 1) # "0"

FlightSelected ==
    /\ selected_flight_id # None
    /\ \E i \in 1..Len(top_flights) : ToString(top_flights[i].flight_id) = selected_flight_id

HotelSelected ==
    /\ selected_hotel_id # None
    /\ \E i \in 1..Len(top_hotels) : ToString(top_hotels[i].hotel_id) = selected_hotel_id

\* C1: every save call has inserted one new row whose key is greater than the
\* key of every earlier row and has returned that key with the code TRV- plus
\* the key zero-padded to 6 digits; any two calls returned different keys and
\* different codes.
C1_SaveIssuesFreshKeyAndCode ==
    /\ Len(receipts) = Len(rows)
    /\ \A i \in 1..Len(rows) :
          /\ receipts[i].booking_id = rows[i].id
          /\ IsCodeOf(receipts[i].confirmation_code, rows[i].id)
          /\ \A j \in 1..(i - 1) :
                /\ rows[j].id < rows[i].id
                /\ receipts[j].booking_id # receipts[i].booking_id
                /\ receipts[j].confirmation_code # receipts[i].confirmation_code

\* Two saves with identical inputs within one second have returned.
C1_Witness ==
    \E i, j \in 1..Len(rows) :
        /\ i < j
        /\ rows[i].flight_json = rows[j].flight_json
        /\ rows[i].hotel_json = rows[j].hotel_json
        /\ rows[i].created_at = rows[j].created_at
        /\ Len(receipts) = Len(rows)

\* C2 (as claimed): list_recent(n) returns the min(n, number of bookings) most
\* recently created bookings, the most recently created first.
C2_ListRecentNewestFirst ==
    recent # NoRecent =>
        recent.result = [k \in 1..Min(recent.limit, Len(rows)) |->
                            Summary(rows[Len(rows) + 1 - k])]

\* C3: a Confirm pressed while the flight or the hotel selection is unset or
\* names no record of the current result set inserts no row and issues no
\* code, keeps both selections, and the run goes on to its end, after which
\* search, selection and confirm are offered again.
C3_StaleConfirmRejected ==
    /\ [][(pc = "confirm" /\ trigger = "confirm" /\ ~(FlightSelected /\ HotelSelected))
            => /\ rows' = rows
               /\ seq' = seq
               /\ receipts' = receipts
               /\ selected_flight_id' = selected_flight_id
               /\ selected_hotel_id' = selected_hotel_id
               /\ message' \in {"need_both", "not_found"}
               /\ pc' = "sidebar"]_vars
    /\ []((pc = "sidebar" /\ message \in {"need_both", "not_found"})
            => ENABLED Sidebar)
    /\ []((pc = "idle" /\ message \in {"need_both", "not_found"})
            => /\ recent.limit = SidebarLimit
               /\ ENABLED Reload
               /\ ENABLED ClickConfirm
               /\ ENABLED (\E o \in SessionOrigins, d \in SessionDestinations,
                              dt \in SessionDates, bud \in SessionBudgets,
                              n \in NightsValues :
                                /\ Strip(o) # "" /\ Strip(d) # ""
                                /\ Submit(o, d, dt, bud, n))
               /\ \A i \in 1..Len(top_flights) : ENABLED ClickSelectFlight(i)
               /\ \A i \in 1..Len(top_hotels) : ENABLED ClickSelectHotel(i))

\* A Confirm was rejected for a flight id that names no flight of the current
\* result set, and the id is still selected after the run.
C3_Witness ==
    /\ pc = "idle"
    /\ message = "not_found"
    /\ selected_flight_id # None
    /\ ~FlightSelected
    /\ top_hotels # <<>>

\* C4: a valid search submission replaces top_flights and top_hotels by the
\* records matching the new criteria, stores the criteria in last_search,
\* empties itinerary_text, and leaves both selections as they were.
C4_SearchReplacesResultsKeepsSelection ==
    [][\A o \in SessionOrigins, d \in SessionDestinations, dt \in SessionDates,
          bud \in SessionBudgets, n \in NightsValues :
            (Submit(o, d, dt, bud, n) /\ Strip(o) # "" /\ Strip(d) # "")
            => /\ last_search' = [origin |-> o, destination |-> d,
                                  travel_date |-> Strftime(dt), budget |-> bud,
                                  nights |-> n]
               /\ itinerary_text' = ""
               /\ selected_flight_id' = selected_flight_id
               /\ selected_hotel_id' = selected_hotel_id
               /\ LET wanted == {f \in SeqRange(flights_df_all) :
                                    /\ Lower(f.origin) = Lower(Strip(o))
                                    /\ Lower(f.destination) = Lower(Strip(d))
                                    /\ StartsWith(f.depart_datetime, Strftime(dt))}
                  IN /\ SeqRange(top_flights') \subseteq wanted
                     /\ Len(top_flights') = Min(Cardinality(wanted), 8)
                     /\ Cardinality(SeqRange(top_flights')) = Len(top_flights')
               /\ LET wanted == {h \in SeqRange(hotels_df_all) :
                                    /\ Lower(h.city) = Lower(Strip(d))
                                    /\ h.price_per_night <= bud
                                    /\ h.availability_rooms > 0}
                  IN /\ SeqRange(top_hotels') \subseteq wanted
                     /\ Len(top_hotels') = Min(Cardinality(wanted), 8)
                     /\ Cardinality(SeqRange(top_hotels')) = Len(top_hotels')]_vars

\* A search has just run and the flight selected before it names no flight
\* of the new result set.
C4_Witness ==
    /\ pc = "itinerary"
    /\ trigger = "submit_valid"
    /\ itinerary_text = ""
    /\ selected_flight_id # None
    /\ ~FlightSelected
    /\ HotelSelected

\* C5: top_flights holds at most 8 flights in ascending order of price_usd and
\* top_hotels holds at most 8 hotels.
C5_ResultsCappedAndSorted ==
    /\ Len(top_flights) <= 8
    /\ Len(top_hotels) <= 8
    /\ \A i \in 1..(Len(top_flights) - 1) :
          top_flights[i].price_usd <= top_flights[i + 1].price_usd

\* A search matched more than 8 flights and more than 8 hotels.
C5_Witness ==
    /\ Len(top_flights) = 8
    /\ Len(top_hotels) = 8
    /\ top_flights[1].price_usd < top_flights[8].price_usd
    /\ Cardinality({f \in SeqRange(flights_df_all) :
                       FlightMatches(f, last_search.origin, last_search.destination,
                                     last_search.travel_date)}) > 8

\* C6: every hotel of top_hotels has a room available, costs at most the
\* budget of the last search and lies in the city that search named as its
\* destination, compared trimmed and without case.
C6_HotelsAvailableWithinBudget ==
    /\ last_search = EmptyDict => top_hotels = <<>>
    /\ \A i \in 1..Len(top_hotels) :
          /\ top_hotels[i].availability_rooms > 0
          /\ top_hotels[i].price_per_night <= last_search.budget
          /\ Lower(top_hotels[i].city) = Lower(Strip(last_search.destination))

\* A search returned hotels while the destination also has a sold-out hotel
\* within the budget and a hotel above the budget.
C6_Witness ==
    /\ top_hotels # <<>>
    /\ \E h \in SeqRange(hotels_df_all) :
          /\ Lower(h.city) = Lower(Strip(last_search.destination))
          /\ h.availability_rooms = 0
          /\ h.price_per_night <= last_search.budget
    /\ \E h \in SeqRange(hotels_df_all) :
          /\ Lower(h.city) = Lower(Strip(last_search.destination))
          /\ h.availability_rooms > 0
          /\ h.price_per_night > last_search.budget

\* C7 (as claimed): no step of a run started by a submission with a blank
\* origin or destination changes the session state or the booking store.
C7_InvalidSubmissionMutatesNothing ==
    [][(trigger = "submit_invalid" \/ trigger' = "submit_invalid")
          => UNCHANGED <<top_flights, top_hotels, last_search, itinerary_text,
                         selected_flight_id, selected_hotel_id, rows, seq>>]_vars

\* C8 (as claimed): between two valid searches the advisor is invoked at most
\* once.
C8_AdvisorInvokedAtMostOncePerSearch == advisor_calls <= 1

\* C9 (as claimed): a run ends before the page is rendered only when a
\* dataset file is missing.
C9_OnlyMissingDatasetIsFatal ==
    run_status \in {"stopped", "crashed"} => ~csv_exists

\* C10: a step that adds a booking row appends it to the rows already there;
\* the row holds the origin, destination and travel date of last_search, the
\* flight of top_flights and the hotel of top_hotels whose ids are the current
\* selections; and the flight's origin, destination and departure day and the
\* hotel's city agree with the row's origin, destination and travel date.
C10_BookingMatchesCurrentSearch ==
    [][Len(rows') > Len(rows)
          => LET r == rows'[Len(rows')] IN
             /\ Len(rows') = Len(rows) + 1
             /\ SubSeq(rows', 1, Len(rows)) = rows
             /\ last_search # EmptyDict
             /\ r.origin = last_search.origin
             /\ r.destination = last_search.destination
             /\ r.travel_date = last_search.travel_date
             /\ \E i \in 1..Len(top_flights) :
                   /\ ToString(top_flights[i].flight_id) = selected_flight_id
                   /\ r.flight_json = JsonDumpsFlight(<<top_flights[i]>>)
             /\ \E i \in 1..Len(top_hotels) :
                   /\ ToString(top_hotels[i].hotel_id) = selected_hotel_id
                   /\ r.hotel_json = JsonDumpsHotel(<<top_hotels[i]>>)
             /\ Lower(Unquote(r.flight_json.origin)) = Lower(Strip(r.origin))
             /\ Lower(Unquote(r.flight_json.destination)) = Lower(Strip(r.destination))
             /\ StartsWith(Unquote(r.flight_json.depart_datetime), r.travel_date)
             /\ Lower(Unquote(r.hotel_json.city)) = Lower(Strip(r.destination))]_vars

\* A booking was saved whose flight spells its origin and destination in
\* another case than the search that found it.
C10_Witness ==
    /\ message = "saved"
    /\ \E i \in 1..Len(rows) :
          /\ rows[i].origin = " Delhi"
          /\ rows[i].flight_json.origin = Quote("delhi")
          /\ rows[i].flight_json.destination = Quote("PARIS")
          /\ rows[i].destination = "paris "

====
